---- MODULE Spec2Model ----
(***************************************************************************)
(* Model of reroll_nodes.py: NodeReroller.run() and the methods it calls.  *)
(* The program is sequential; every remote call (control plane, compute    *)
(* provider) is one step whose outcome the environment chooses.            *)
(* Strings the code inspects (strip, startswith, split) are sequences of   *)
(* one-character strings; None and '' of an optional string are both <<>>. *)
(***************************************************************************)
EXTENDS Integers, Sequences, FiniteSets, TLC

\* ------------------------------------------------------------------ bounds

\* Most nodes the control plane lists at the start of a run.
MaxNodes == 2

\* Most pods a pod listing returns in the drain specification.
MaxPods == 2

\* Most pods a listing of drain's polling loop returns in the drain specification.
MaxPollPods == 1

\* The drain timeout, in polls of the drain loop (drain_timeout / 5).
DrainPolls == 2

\* max_wait of wait_for_replacement, in polls of its loop (300 / 10 in the code).
WaitPolls == 2

\* --------------------------------------------------------- program constants

DrainSleep == 5

WaitSleep == 10

MinReadyNodes == 2

\* ------------------------------------------------------------------ strings

None == <<>>

StartsWith(s, p) == Len(s) >= Len(p) /\ SubSeq(s, 1, Len(p)) = p

IsSpace(c) == c \in {" ", "\t"}

RECURSIVE LStrip(_)
LStrip(s) == IF s # <<>> /\ IsSpace(Head(s)) THEN LStrip(Tail(s)) ELSE s

RECURSIVE RStrip(_)
RStrip(s) ==
  IF s # <<>> /\ IsSpace(s[Len(s)]) THEN RStrip(SubSeq(s, 1, Len(s) - 1)) ELSE s

\* str.strip()
Strip(s) == RStrip(LStrip(s))

\* str.split(sep) for a one-character separator: the parts, in order.
RECURSIVE SplitFrom(_, _, _)
SplitFrom(s, sep, cur) ==
  IF s = <<>> THEN <<cur>>
  ELSE IF Head(s) = sep THEN <<cur>> \o SplitFrom(Tail(s), sep, <<>>)
  ELSE SplitFrom(Tail(s), sep, Append(cur, Head(s)))

Split(s, sep) == SplitFrom(s, sep, <<>>)

\* dict.get(k, '') on a dict of strings
Get(d, k) == IF k \in DOMAIN d THEN d[k] ELSE <<>>

Range(s) == {s[x] : x \in DOMAIN s}

\* ------------------------------------------------------- label and id texts

NODEPOOL == "karpenter.sh/nodepool"

PROVISIONER == "karpenter.sh/provisioner-name"

MIRROR == "kubernetes.io/config.mirror"

ANNOT_KARPENTER == "karpenter.sh/instance-id"

ANNOT_K8S == "node.kubernetes.io/instance-id"

AWS_SCHEME == <<"a", "w", "s", ":", "/", "/">>

ID_PREFIX == <<"i", "-">>

\* ------------------------------------------------------------ node selection

\* any(condition.type == "Ready" and condition.status == "True")
IsReady(node) ==
  \E c \in DOMAIN node.conditions :
    node.conditions[c].type = "Ready" /\ node.conditions[c].status = "True"

\* A marker test that does not trim the label values.
HasMarkerUntrimmed(node) ==
  Get(node.labels, NODEPOOL) # <<>> \/ Get(node.labels, PROVISIONER) # <<>>

\* Lines 103-107: a provisioner marker under either label name, non-empty after strip.
HasMarker(node) ==
  Strip(Get(node.labels, NODEPOOL)) # <<>> \/ Strip(Get(node.labels, PROVISIONER)) # <<>>

\* Lines 110-114: every selector key carries the required value.
MatchesSelector(node, selector) ==
  \A key \in DOMAIN selector :
    key \in DOMAIN node.labels /\ node.labels[key] = selector[key]

\* The filter of get_karpenter_nodes over a successful listing, in listing order.
RECURSIVE FilterKarpenter(_, _)
FilterKarpenter(all_nodes, selector) ==
  IF all_nodes = <<>> THEN <<>>
  ELSE (IF HasMarker(Head(all_nodes)) /\ MatchesSelector(Head(all_nodes), selector)
        THEN <<Head(all_nodes)>> ELSE <<>>)
       \o FilterKarpenter(Tail(all_nodes), selector)

\* sum(1 for node in nodes if any(Ready == True))
RECURSIVE ReadyCount(_)
ReadyCount(ns) ==
  IF ns = <<>> THEN 0
  ELSE (IF IsReady(Head(ns)) THEN 1 ELSE 0) + ReadyCount(Tail(ns))

\* A gate that asks for more than the minimum.
HealthVerdictStrict(ns) == ~(ReadyCount(ns) <= MinReadyNodes)

\* A gate that lets a single ready node through.
HealthVerdictLax(ns) == ~(ReadyCount(ns) < MinReadyNodes - 1)

\* Lines 166-170: the health gate's verdict on a successful listing.
HealthVerdict(ns) == ~(ReadyCount(ns) < MinReadyNodes)

\* ------------------------------------------------------- instance resolution

\* Lines 311-315: the last "/"-separated part of an aws:// provider id, when it is an id.
ProviderInstance(node) ==
  IF node.provider_id # <<>> /\ StartsWith(node.provider_id, AWS_SCHEME)
  THEN LET parts == Split(node.provider_id, "/")
       IN  IF Len(parts) >= 2 /\ StartsWith(parts[Len(parts)], ID_PREFIX)
           THEN parts[Len(parts)] ELSE None
  ELSE None

\* Lines 318-324: the first of the two annotations, in this order, that holds an id.
AnnotationInstance(node) ==
  LET a == node.annotations
  IN  IF ANNOT_KARPENTER \in DOMAIN a /\ StartsWith(a[ANNOT_KARPENTER], ID_PREFIX)
      THEN a[ANNOT_KARPENTER]
      ELSE IF ANNOT_K8S \in DOMAIN a /\ StartsWith(a[ANNOT_K8S], ID_PREFIX)
      THEN a[ANNOT_K8S]
      ELSE None

\* Position of the first InternalIP address, 0 when there is none.
RECURSIVE FirstInternalIP(_, _)
FirstInternalIP(addresses, from) ==
  IF from > Len(addresses) THEN 0
  ELSE IF addresses[from].type = "InternalIP" THEN from
  ELSE FirstInternalIP(addresses, from + 1)

\* Lines 327-345: the addresses describe_instances is called for. The loop breaks
\* after the first InternalIP address, whatever its lookup gave.
QueriedAddresses(node, ec2_client) ==
  LET first == FirstInternalIP(node.addresses, 1)
  IN  IF ec2_client /\ node.addresses # <<>> /\ first # 0
      THEN <<node.addresses[first].address>> ELSE <<>>

\* Whether get_instance_id_from_node reaches the lookup by private IP.
NeedsLookup(node, ec2_client) ==
  /\ ProviderInstance(node) = None
  /\ AnnotationInstance(node) = None
  /\ QueriedAddresses(node, ec2_client) # <<>>

\* A resolver that reads the annotations before the provider id.
AnnotationFirst(node, ec2_client, lookup) ==
  IF AnnotationInstance(node) # None THEN AnnotationInstance(node)
  ELSE IF ProviderInstance(node) # None THEN ProviderInstance(node)
  ELSE LET q == QueriedAddresses(node, ec2_client)
       IN  IF q # <<>> /\ ~lookup[q[1]].raised /\ lookup[q[1]].ids # <<>>
           THEN lookup[q[1]].ids[1]
           ELSE None

\* get_instance_id_from_node. lookup maps an address to the provider's answer:
\* [raised |-> the call raised, ids |-> the instance ids of the reservations, in order].
get_instance_id_from_node(node, ec2_client, lookup) ==
  IF ProviderInstance(node) # None THEN ProviderInstance(node)
  ELSE IF AnnotationInstance(node) # None THEN AnnotationInstance(node)
  ELSE LET q == QueriedAddresses(node, ec2_client)
       IN  IF q # <<>> /\ ~lookup[q[1]].raised /\ lookup[q[1]].ids # <<>>
           THEN lookup[q[1]].ids[1]
           ELSE None

\* ------------------------------------------------------------------- drain

IsDaemonSet(pod) ==
  \E r \in DOMAIN pod.owner_references : pod.owner_references[r].kind = "DaemonSet"

IsMirror(pod) == DOMAIN pod.annotations # {} /\ MIRROR \in DOMAIN pod.annotations

\* A filter that forgets the mirror pods.
EvictableWithMirrors(pod) == ~pod.deletion_timestamp /\ ~IsDaemonSet(pod)

\* Lines 209-227: a listed pod is evicted unless it is terminating, a DaemonSet's or a mirror.
Evictable(pod) == ~pod.deletion_timestamp /\ ~IsDaemonSet(pod) /\ ~IsMirror(pod)

RECURSIVE PodsToEvict(_)
PodsToEvict(pods) ==
  IF pods = <<>> THEN <<>>
  ELSE (IF Evictable(Head(pods)) THEN <<Head(pods)>> ELSE <<>>) \o PodsToEvict(Tail(pods))

\* A polling filter that forgets the mirror pods.
StillCountedWithMirrors(pod) == ~IsDaemonSet(pod)

\* Lines 271-280: the polling loop's filter leaves out DaemonSet and mirror pods only.
StillCounted(pod) == ~IsDaemonSet(pod) /\ ~IsMirror(pod)

RECURSIVE RemainingPods(_)
RemainingPods(pods) ==
  IF pods = <<>> THEN <<>>
  ELSE (IF StillCounted(Head(pods)) THEN <<Head(pods)>> ELSE <<>>)
       \o RemainingPods(Tail(pods))

\* ------------------------------------------------------------ input universes

NP == <<"n", "p">>

PLATFORM == <<"p", "l", "a", "t">>

READY == <<[type |-> "Ready", status |-> "True"]>>

NOT_READY == <<[type |-> "MemoryPressure", status |-> "True"],
               [type |-> "Ready", status |-> "False"]>>

NodeName(n) == "n" \o ToString(n)

InstanceOf(n) == <<"i", "-", ToString(n)>>

\* A provisioner-managed, ready node whose provider id names its instance.
ManagedNode(n) ==
  [name |-> NodeName(n),
   labels |-> (NODEPOOL :> NP) @@ ("team" :> PLATFORM),
   conditions |-> READY,
   provider_id |-> AWS_SCHEME \o <<"/", "z", "/">> \o InstanceOf(n),
   annotations |-> <<>>,
   addresses |-> <<[type |-> "InternalIP", address |-> "10.0.0." \o ToString(n)]>>]

\* A ready node under the older marker label, its instance known by private IP only.
LegacyNode(n) ==
  [ManagedNode(n) EXCEPT !.labels = (PROVISIONER :> NP), !.provider_id = None]

\* A provisioner-managed node that is not ready.
UnreadyNode(n) == [ManagedNode(n) EXCEPT !.conditions = NOT_READY]

\* A ready node no provisioner manages (its marker label is blank).
ForeignNode(n) ==
  [ManagedNode(n) EXCEPT !.labels = (NODEPOOL :> <<" ">>) @@ ("team" :> PLATFORM)]

NodeKinds == {"managed", "legacy", "foreign"}

NodeOfKind(kind, n) ==
  CASE kind = "managed" -> ManagedNode(n)
    [] kind = "legacy" -> LegacyNode(n)
    [] OTHER -> ForeignNode(n)

\* A listing whose selected nodes are not all ready.
MixedCluster == <<ManagedNode(1), UnreadyNode(2), ForeignNode(3)>>

\* The node listings a run may start from: up to MaxNodes ready nodes, one kind
\* each, and the mixed listing.
Clusters ==
  UNION {{[n \in 1..len |-> NodeOfKind(kinds[n], n)] : kinds \in [1..len -> NodeKinds]}
         : len \in 0..MaxNodes}
  \cup {MixedCluster}

\* The settings of a run (the constructor's arguments, lines 57-88). No compute
\* client exists when instance termination is skipped (80-81).
AllConfigs ==
  {c \in [dry_run : BOOLEAN,
          skip_ec2_termination : BOOLEAN,
          ec2_client : BOOLEAN,
          wait_between_nodes : {0, 30},
          drain_timeout : {DrainPolls * DrainSleep},
          max_concurrent : {1, 2},
          selector : {<<>>, ("team" :> PLATFORM)}] :
     c.skip_ec2_termination => ~c.ec2_client}

\* How many of the settings differ from the defaults (in a dry run or not).
Deviations(c) ==
  (IF c.skip_ec2_termination \/ ~c.ec2_client THEN 1 ELSE 0)
  + (IF c.wait_between_nodes # 30 THEN 1 ELSE 0)
  + (IF c.selector # <<>> THEN 1 ELSE 0)
  + (IF c.max_concurrent # 1 THEN 1 ELSE 0)

\* The settings runs start with: the defaults with at most one of them changed.
Configs == {c \in AllConfigs : Deviations(c) <= 1}

\* max_wait of wait_for_replacement (line 430), in the model's time scale.
max_wait == WaitPolls * WaitSleep

PodName(n) == "p" \o ToString(n)

OrdinaryPod ==
  [deletion_timestamp |-> FALSE,
   owner_references |-> <<[kind |-> "ReplicaSet"]>>,
   annotations |-> <<>>]

DaemonSetPod == [OrdinaryPod EXCEPT !.owner_references = <<[kind |-> "DaemonSet"]>>]

\* Every combination of the three attributes drain looks at.
PodKinds ==
  [deletion_timestamp : BOOLEAN,
   owner_references : {<<>>, <<[kind |-> "ReplicaSet"]>>, <<[kind |-> "DaemonSet"]>>},
   annotations : {<<>>, (MIRROR :> <<"x">>)}]

Named(kind, n) ==
  [name |-> PodName(n),
   deletion_timestamp |-> kind.deletion_timestamp,
   owner_references |-> kind.owner_references,
   annotations |-> kind.annotations]

PodListsOver(kinds, maxLen) ==
  UNION {{[n \in 1..len |-> Named(ks[n], n)] : ks \in [1..len -> kinds]}
         : len \in 0..maxLen}

\* Pod listings in a whole run: at most one pod, ordinary or a DaemonSet's.
RunPodLists == PodListsOver({OrdinaryPod, DaemonSetPod}, 1)

\* First pod listings in the drain specification.
DrainPodLists == PodListsOver(PodKinds, MaxPods)

\* Pod listings of the polling loop in the drain specification.
PollPodLists == PodListsOver(PodKinds, MaxPollPods)

\* Outcomes of a control-plane mutating call: done, 404, or another ApiException.
ApiOutcomes == {"ok", "notfound", "error"}

\* Outcomes of an eviction: done, 429 (disruption budget), 404, another ApiException.
EvictOutcomes == {"ok", "429", "notfound", "error"}

\* Outcomes of terminate_instances: a non-empty or an empty TerminatingInstances
\* list, the three ClientError branches, or another exception.
TerminateOutcomes ==
  {"ok", "empty", "InvalidInstanceID.NotFound", "UnauthorizedOperation",
   "ClientError", "Exception"}

\* Answers of describe_instances for one address.
LookupAnswers ==
  {[raised |-> TRUE, ids |-> <<>>],
   [raised |-> FALSE, ids |-> <<>>],
   [raised |-> FALSE, ids |-> <<<<"i", "-", "x">>>>]}

MutatingCalls == {"patch_node", "create_eviction", "delete_node", "terminate_instances"}

\* ------------------------------------------------------------------- state

VARIABLES
  cfg,              \* the NodeReroller's settings
  cluster,          \* the control plane's nodes, in listing order
  pending,          \* removed nodes the provisioner has not replaced yet
  pc,               \* where the process is
  exit_code,        \* the exit code once the process has ended, -1 before
  health,           \* check_cluster_health: "none" before, then how its listing ended
  health_ready,     \* check_cluster_health: the ready nodes it counted, -1 if none
  nodes,            \* run(): the selected nodes
  original_count,   \* run(): ready selected nodes at selection time
  pass,             \* "none" | "main" | "retry"
  idx,              \* the loop's i (1-based) in the current pass
  failed_nodes,     \* run(): nodes whose main-pass attempt failed
  retry_failed,     \* run(): names whose retry failed
  pods,             \* drain_node: the first listing
  pods_to_evict,    \* drain_node: its evictable pods
  k,                \* drain_node: position in the eviction loop
  evicted,          \* names of the pods an eviction was requested for, this drain
  remaining_pods,   \* drain_node: the last poll's filtered listing
  rejected,         \* drain_node: whether an eviction of this drain raised
  elapsed,          \* time.time() - start_time of the running polling loop
  instance_id,      \* delete_node: the resolved instance id
  outcome_code,     \* terminate_ec2_instance: how its call ended, "none" before
  att,              \* what the current lifecycle attempt has done so far
  attempts,         \* every finished lifecycle attempt: [node, pass, ok]
  mutated,          \* whether this run has issued a mutating call
  selected,         \* whether run() has called get_karpenter_nodes
  summary           \* the end-of-run summary, once logged

envVars == <<cluster, pending>>

runVars == <<nodes, original_count, pass, idx, failed_nodes, retry_failed>>

drainVars == <<pods, pods_to_evict, k, evicted, remaining_pods, rejected>>

healthVars == <<health, health_ready>>

delVars == <<instance_id, outcome_code>>

histVars == <<attempts, selected, summary>>

vars == <<cfg, cluster, pending, pc, exit_code, health, health_ready, nodes,
          original_count, pass, idx, failed_nodes, retry_failed,
          pods, pods_to_evict, k, evicted, remaining_pods,
          rejected, elapsed, instance_id, outcome_code, att, attempts, mutated, selected, summary>>

\* An attempt that has done nothing yet.
FreshAttempt ==
  [calls |-> {}, cordon |-> "none", drain |-> "none", list_failed |-> FALSE,
   delete |-> "none", terminated |-> "none", wait |-> "none", paused |-> FALSE,
   ok |-> "none", target |-> -1, gone |-> FALSE, lookup |-> <<>>]

NoSummary == [total |-> -1, successful |-> -1, failed |-> -1, names |-> <<>>]

InitRun(config, listing) ==
  /\ cfg = config
  /\ cluster = listing
  /\ pending = <<>>
  /\ pc = "health"
  /\ exit_code = -1
  /\ health = "none"
  /\ health_ready = -1
  /\ nodes = <<>>
  /\ original_count = 0
  /\ pass = "none"
  /\ idx = 0
  /\ failed_nodes = <<>>
  /\ retry_failed = <<>>
  /\ pods = <<>>
  /\ pods_to_evict = <<>>
  /\ k = 0
  /\ evicted = <<>>
  /\ remaining_pods = <<>>
  /\ rejected = FALSE
  /\ elapsed = 0
  /\ instance_id = None
  /\ outcome_code = "none"
  /\ att = FreshAttempt
  /\ attempts = <<>>
  /\ mutated = FALSE
  /\ selected = FALSE
  /\ summary = NoSummary

Init == \E config \in Configs, listing \in Clusters : InitRun(config, listing)

\* ---------------------------------------------------------------- run()

\* The node, the replacement target and skip_wait that run() passes to reroll_node.
CurNode == IF pass = "retry" THEN failed_nodes[idx] ELSE nodes[idx]

\* A target lowered only for the earlier nodes that were rerolled.
TargetAfterSuccesses ==
  IF pass = "retry" THEN original_count
  ELSE original_count - Cardinality({x \in DOMAIN attempts : attempts[x].ok})

\* Stepping through the nodes by max_concurrent.
NextIndexByBatch(i) == i + cfg.max_concurrent

\* Lines 549 and 562: enumerate() goes through the list one item at a time.
NextIndex(i) == i + 1

\* Line 552 (main pass) and line 565 (retry pass).
Target == IF pass = "retry" THEN original_count ELSE original_count - (idx - 1)

\* The pause skipped after the last node of either pass.
SkipWaitOnLastNode == idx = Len(IF pass = "retry" THEN failed_nodes ELSE nodes)

\* Line 565: only the last retry item skips the pause.
SkipWait == pass = "retry" /\ idx = Len(failed_nodes)

Return(code) == pc' = "returned" /\ exit_code' = code

\* sys.exit(1)
SysExit == pc' = "exited" /\ exit_code' = 1

\* Lines 505-507 with check_cluster_health (153-173): one list_node call; an
\* ApiException and fewer than two ready nodes both refuse.
CheckClusterHealth ==
  /\ pc = "health"
  /\ \E listed \in BOOLEAN :
       /\ health' = IF listed THEN "listed" ELSE "failed"
       /\ health_ready' = IF listed THEN ReadyCount(cluster) ELSE -1
       /\ IF listed /\ HealthVerdict(cluster)
          THEN pc' = "select" /\ exit_code' = exit_code
          ELSE Return(1)
  /\ UNCHANGED <<cfg, envVars, runVars, drainVars, elapsed, delVars, att, mutated,
                 histVars>>

\* Lines 510-514 with get_karpenter_nodes (90-119): a failed listing ends the process.
SelectNodes ==
  /\ pc = "select"
  /\ selected' = TRUE
  /\ \E listed \in BOOLEAN :
       IF ~listed
       THEN SysExit /\ nodes' = nodes
       ELSE /\ nodes' = FilterKarpenter(cluster, cfg.selector)
            /\ IF nodes' = <<>> THEN Return(0)
               ELSE pc' = "plan" /\ exit_code' = exit_code
  /\ UNCHANGED <<cfg, envVars, healthVars, original_count, pass, idx, failed_nodes,
                 retry_failed, drainVars, elapsed, delVars, att, mutated, attempts,
                 summary>>

\* A dry run reported as a failure.
DryRunCodeAsFailure == IF cfg.dry_run THEN 1 ELSE 0

\* The exit code of a dry run (line 536).
DryRunCode == 0

\* Lines 516-548: show the nodes; a dry run ends here; otherwise count the ready
\* selected nodes and start the main pass.
Plan ==
  /\ pc = "plan"
  /\ IF cfg.dry_run
     THEN Return(DryRunCode) /\ UNCHANGED <<original_count, pass, idx>>
     ELSE /\ original_count' = ReadyCount(nodes)
          /\ pass' = "main"
          /\ idx' = 1
          /\ pc' = "cordon"
          /\ exit_code' = exit_code
  /\ UNCHANGED <<cfg, envVars, healthVars, nodes, failed_nodes, retry_failed, drainVars,
                 elapsed, delVars, att, mutated, histVars>>

\* ------------------------------------------------------------- reroll_node

Called(a, call) == [a EXCEPT !.calls = @ \cup {call}]

\* reroll_node giving the attempt up when the cordon failed.
AfterCordonChecked(cordoned) == IF cordoned THEN "drain" ELSE "attempt_end"

\* Lines 469-473: whatever cordon_node returned, reroll_node goes on to drain.
AfterCordon(cordoned) == "drain"

\* Lines 465-470 with cordon_node (175-188): reroll_node starts with the target it
\* was passed; a failed patch is logged, drain follows.
CordonNode ==
  /\ pc = "cordon"
  /\ IF cfg.dry_run
     THEN /\ att' = [att EXCEPT !.cordon = "ok", !.target = Target]
          /\ mutated' = mutated
          /\ pc' = AfterCordon(TRUE)
     ELSE \E outcome \in ApiOutcomes :
            /\ att' = [Called(att, "patch_node") EXCEPT
                         !.cordon = IF outcome = "ok" THEN "ok" ELSE "fail",
                         !.target = Target]
            /\ mutated' = TRUE
            /\ pc' = AfterCordon(outcome = "ok")
  /\ UNCHANGED <<cfg, envVars, exit_code, healthVars, runVars, drainVars, elapsed, delVars,
                 histVars>>

\* drain_node reaches a return statement with this result.
DrainResult(a, drained) == [a EXCEPT !.drain = IF drained THEN "ok" ELSE "fail"]

\* Lines 196-233: the dry-run guard, the first pod listing and its filter. No pod
\* to evict is success at once; an ApiException is failure (294-296).
DrainList(podLists) ==
  /\ pc = "drain"
  /\ IF cfg.dry_run
     THEN /\ att' = DrainResult(att, TRUE)
          /\ pc' = "drain_ret"
          /\ UNCHANGED drainVars
     ELSE \E listed \in BOOLEAN, listing \in podLists :
            IF ~listed
            THEN /\ att' = DrainResult([Called(att, "list_pods") EXCEPT
                                          !.list_failed = TRUE], FALSE)
                 /\ pc' = "drain_ret"
                 /\ UNCHANGED drainVars
            ELSE /\ pods' = listing
                 /\ pods_to_evict' = PodsToEvict(listing)
                 /\ UNCHANGED <<evicted, remaining_pods, rejected>>
                 /\ IF pods_to_evict' = <<>>
                    THEN /\ att' = DrainResult(Called(att, "list_pods"), TRUE)
                         /\ pc' = "drain_ret"
                         /\ k' = k
                    ELSE /\ att' = Called(att, "list_pods")
                         /\ pc' = "evict"
                         /\ k' = 1
  /\ UNCHANGED <<cfg, envVars, exit_code, healthVars, runVars, elapsed, delVars, mutated,
                 histVars>>

\* An eviction loop that gives the drain up when a disruption budget rejects an eviction.
EvictionAbortsOnBudget(outcome) == outcome = "429"

\* Lines 252-261: whether an eviction's outcome makes drain_node return False at
\* once. Both branches of the handler only log.
EvictionAborts(outcome) == FALSE

\* Lines 241-261: one eviction request for the next pod of pods_to_evict; every
\* ApiException is logged and the loop goes on.
DrainEvict ==
  /\ pc = "evict"
  /\ k <= Len(pods_to_evict)
  /\ \E outcome \in EvictOutcomes :
       /\ rejected' = (rejected \/ outcome # "ok")
       /\ IF EvictionAborts(outcome)
          THEN /\ att' = DrainResult(Called(att, "create_eviction"), FALSE)
               /\ pc' = "drain_ret"
          ELSE /\ att' = Called(att, "create_eviction")
               /\ pc' = pc
  /\ evicted' = Append(evicted, pods_to_evict[k].name)
  /\ mutated' = TRUE
  /\ k' = k + 1
  /\ UNCHANGED <<cfg, envVars, exit_code, healthVars, runVars, pods, pods_to_evict,
                 remaining_pods, elapsed, delVars, histVars>>

\* Lines 263-264: the eviction loop is over and the polling loop's clock starts.
\* The first listing is not read again.
DrainStartWait ==
  /\ pc = "evict"
  /\ k > Len(pods_to_evict)
  /\ pc' = "poll"
  /\ elapsed' = 0
  /\ pods' = <<>>
  /\ pods_to_evict' = <<>>
  /\ k' = 0
  /\ UNCHANGED <<cfg, envVars, exit_code, healthVars, runVars, evicted, remaining_pods,
                 rejected, delVars, att, mutated, histVars>>

\* Lines 265-292: one turn of the polling loop, or the timeout once the clock has
\* reached drain_timeout. A failed listing is failure (294-296).
DrainPoll(podLists) ==
  /\ pc = "poll"
  /\ IF elapsed < cfg.drain_timeout
     THEN \E listed \in BOOLEAN, listing \in podLists :
            IF ~listed
            THEN /\ att' = DrainResult([att EXCEPT !.list_failed = TRUE], FALSE)
                 /\ pc' = "drain_ret"
                 /\ UNCHANGED <<remaining_pods, elapsed>>
            ELSE /\ remaining_pods' = RemainingPods(listing)
                 /\ IF remaining_pods' = <<>>
                    THEN /\ att' = DrainResult(att, TRUE)
                         /\ pc' = "drain_ret"
                         /\ elapsed' = elapsed
                    ELSE /\ elapsed' = elapsed + DrainSleep
                         /\ UNCHANGED <<att, pc>>
     ELSE /\ att' = DrainResult(att, FALSE)
          /\ pc' = "drain_ret"
          /\ UNCHANGED <<remaining_pods, elapsed>>
  /\ UNCHANGED <<cfg, envVars, exit_code, healthVars, runVars, pods, pods_to_evict, k,
                 evicted, rejected, delVars, mutated, histVars>>

\* reroll_node going on to delete whatever drain_node returned.
AfterDrainUnchecked(drained) == "delete"

\* Lines 473-475: reroll_node goes on to delete only when drain_node returned True.
AfterDrain(drained) == IF drained THEN "delete" ELSE "attempt_end"

\* drain_node has returned to reroll_node (lines 473-475); its locals are gone.
DrainReturn ==
  /\ pc = "drain_ret"
  /\ pc' = AfterDrain(att.drain = "ok")
  /\ att' = [att EXCEPT !.ok = IF att.drain = "ok" THEN @ ELSE "fail"]
  /\ pods' = <<>>
  /\ pods_to_evict' = <<>>
  /\ k' = 0
  /\ evicted' = <<>>
  /\ remaining_pods' = <<>>
  /\ rejected' = FALSE
  /\ elapsed' = 0
  /\ UNCHANGED <<cfg, envVars, exit_code, healthVars, runVars, delVars, mutated, histVars>>

Names(ns) == {ns[x].name : x \in DOMAIN ns}

RECURSIVE Without(_, _)
Without(ns, name) ==
  IF ns = <<>> THEN <<>>
  ELSE (IF Head(ns).name = name THEN <<>> ELSE <<Head(ns)>>) \o Without(Tail(ns), name)

Addresses(node) == {node.addresses[x].address : x \in DOMAIN node.addresses}

\* delete_node looking at the instance before it looks at how its delete call ended.
AfterDeleteInstanceFirst(deleted) ==
  IF ~cfg.skip_ec2_termination /\ cfg.ec2_client THEN "resolve"
  ELSE IF deleted THEN "delete_ret"
  ELSE "attempt_end"

\* Lines 404-420: what delete_node does after its delete call: on an ApiException
\* it returns False; otherwise it resolves and terminates the instance unless
\* termination is skipped or there is no compute client.
AfterDelete(deleted) ==
  IF ~deleted THEN "attempt_end"
  ELSE IF ~cfg.skip_ec2_termination /\ cfg.ec2_client THEN "resolve"
  ELSE "delete_ret"

\* Lines 392-410 and 478-480: the dry-run guard, then the delete_node call. An
\* ApiException makes delete_node, and with it reroll_node, return False. The call
\* succeeds only on a node the control plane still has; a 404 is another actor
\* having removed it.
DeleteNode ==
  /\ pc = "delete"
  /\ IF cfg.dry_run
     THEN /\ \E lookup \in [Addresses(CurNode) -> LookupAnswers] :
               instance_id' = IF ~cfg.skip_ec2_termination
                              THEN get_instance_id_from_node(CurNode, cfg.ec2_client, lookup)
                              ELSE None
          /\ att' = [att EXCEPT !.delete = "ok"]
          /\ pc' = "delete_ret"
          /\ UNCHANGED <<envVars, mutated>>
     ELSE /\ \E outcome \in ApiOutcomes :
               /\ outcome = "ok" => CurNode.name \in Names(cluster)
               /\ att' = [Called(att, "delete_node") EXCEPT
                            !.delete = IF outcome = "ok" THEN "ok" ELSE "fail",
                            !.gone = (outcome = "notfound"),
                            !.ok = IF outcome = "ok" THEN @ ELSE "fail"]
               /\ pc' = AfterDelete(outcome = "ok")
               /\ IF outcome \in {"ok", "notfound"} /\ CurNode.name \in Names(cluster)
                  THEN /\ cluster' = Without(cluster, CurNode.name)
                       /\ pending' = Append(pending, CurNode)
                  ELSE UNCHANGED envVars
          /\ mutated' = TRUE
          /\ instance_id' = instance_id
  /\ UNCHANGED <<cfg, exit_code, healthVars, runVars, drainVars, elapsed, outcome_code,
                 histVars>>

\* Lines 414-418 with get_instance_id_from_node (298-348): no id, no termination.
ResolveInstance ==
  /\ pc = "resolve"
  /\ \E lookup \in [Addresses(CurNode) -> LookupAnswers] :
       /\ instance_id' = get_instance_id_from_node(CurNode, cfg.ec2_client, lookup)
       /\ att' = [att EXCEPT !.calls = @ \cup {"resolve"} \cup
                               (IF NeedsLookup(CurNode, cfg.ec2_client)
                                THEN {"describe_instances"} ELSE {}),
                             !.lookup = IF NeedsLookup(CurNode, cfg.ec2_client)
                                        THEN lookup ELSE <<>>]
  /\ pc' = IF instance_id' # None THEN "terminate" ELSE "delete_ret"
  /\ UNCHANGED <<cfg, envVars, exit_code, healthVars, runVars, drainVars, elapsed,
                 outcome_code, mutated, histVars>>

\* Lines 368-390: what terminate_ec2_instance returns for each outcome of the call.
TerminateResult(outcome) == outcome = "ok"

\* Line 416 with terminate_ec2_instance (350-390).
TerminateInstance ==
  /\ pc = "terminate"
  /\ IF ~cfg.ec2_client
     THEN att' = [att EXCEPT !.terminated = "fail"] /\ UNCHANGED <<mutated, outcome_code>>
     ELSE IF cfg.dry_run
     THEN att' = [att EXCEPT !.terminated = "ok"] /\ UNCHANGED <<mutated, outcome_code>>
     ELSE \E outcome \in TerminateOutcomes :
            /\ outcome_code' = outcome
            /\ att' = [Called(att, "terminate_instances") EXCEPT
                         !.terminated = IF TerminateResult(outcome) THEN "ok" ELSE "fail"]
            /\ mutated' = TRUE
  /\ pc' = "delete_ret"
  /\ UNCHANGED <<cfg, envVars, exit_code, healthVars, runVars, drainVars, elapsed,
                 instance_id, histVars>>

\* Line 420 and 478-483: delete_node returns True, ignoring what termination
\* returned; its locals are gone and wait_for_replacement's clock starts (431).
DeleteReturn ==
  /\ pc = "delete_ret"
  /\ pc' = "wait"
  /\ instance_id' = None
  /\ outcome_code' = "none"
  /\ att' = [att EXCEPT !.lookup = <<>>]
  /\ elapsed' = 0
  /\ UNCHANGED <<cfg, envVars, exit_code, healthVars, runVars, drainVars, mutated, histVars>>

\* A replacement wait without a timeout.
WaitGoesOnForever(waited) == TRUE

\* Line 433: the loop of wait_for_replacement goes on while its clock is short of max_wait.
WaitGoesOn(waited) == waited < max_wait

\* Lines 483-484 with wait_for_replacement (422-451): one turn of its loop, or the
\* timeout. The loop lists through get_karpenter_nodes, whose failed listing ends
\* the process (119).
WaitPoll ==
  /\ pc = "wait"
  /\ IF cfg.dry_run
     THEN /\ att' = [att EXCEPT !.wait = "ok"]
          /\ pc' = "pause"
          /\ UNCHANGED <<exit_code, elapsed>>
     ELSE IF WaitGoesOn(elapsed)
     THEN \E listed \in BOOLEAN :
            IF ~listed
            THEN /\ SysExit
                 /\ att' = Called(att, "wait_for_replacement")
                 /\ elapsed' = elapsed
            ELSE LET ready_nodes == ReadyCount(FilterKarpenter(cluster, cfg.selector))
                 IN  IF ready_nodes >= att.target
                     THEN /\ att' = [Called(att, "wait_for_replacement") EXCEPT
                                       !.wait = "ok"]
                          /\ pc' = "pause"
                          /\ UNCHANGED <<exit_code, elapsed>>
                     ELSE /\ att' = Called(att, "wait_for_replacement")
                          /\ elapsed' = elapsed + WaitSleep
                          /\ UNCHANGED <<exit_code, pc>>
     ELSE /\ att' = [Called(att, "wait_for_replacement") EXCEPT !.wait = "fail"]
          /\ pc' = "pause"
          /\ UNCHANGED <<exit_code, elapsed>>
  /\ UNCHANGED <<cfg, envVars, healthVars, runVars, drainVars, delVars, mutated, histVars>>

\* The node the provisioner creates for a removed one: same labels, a new name, ready.
Replacement(node) == [node EXCEPT !.name = "r-" \o @, !.conditions = READY]

\* The provisioner replaces a removed node while the orchestrator waits.
Provision ==
  /\ pc = "wait"
  /\ pending # <<>>
  /\ cluster' = Append(cluster, Replacement(Head(pending)))
  /\ pending' = Tail(pending)
  /\ UNCHANGED <<cfg, pc, exit_code, healthVars, runVars, drainVars, elapsed, delVars, att,
                 mutated, histVars>>

\* Lines 486-491: the pause between nodes, then reroll_node returns True.
Pause ==
  /\ pc = "pause"
  /\ att' = [att EXCEPT !.paused = ~SkipWait /\ cfg.wait_between_nodes > 0,
                        !.ok = "ok"]
  /\ pc' = "attempt_end"
  /\ UNCHANGED <<cfg, envVars, exit_code, healthVars, runVars, drainVars, elapsed, delVars,
                 mutated, histVars>>

\* ------------------------------------------------------- run(): the two passes

Finished == [node |-> CurNode.name, pass |-> pass, ok |-> att.ok = "ok", gone |-> att.gone]

\* Lines 552-553: whether run() puts the node on failed_nodes, given reroll_node's result.
Collects(ok) == ~ok

\* Lines 549-560: reroll_node has returned in the main pass. A failed node is
\* appended to failed_nodes; after the last node the retry pass starts when
\* failed_nodes is not empty.
MainPassStep ==
  /\ pc = "attempt_end"
  /\ pass = "main"
  /\ attempts' = Append(attempts, Finished)
  /\ failed_nodes' = IF Collects(att.ok = "ok") THEN Append(failed_nodes, CurNode)
                     ELSE failed_nodes
  /\ IF idx < Len(nodes)
     THEN idx' = NextIndex(idx) /\ pass' = pass /\ pc' = "cordon"
     ELSE IF failed_nodes' # <<>>
     THEN idx' = 1 /\ pass' = "retry" /\ pc' = "cordon"
     ELSE idx' = idx /\ pass' = pass /\ pc' = "summary"
  /\ retry_failed' = <<>>
  /\ att' = FreshAttempt
  /\ elapsed' = 0
  /\ UNCHANGED <<cfg, envVars, exit_code, healthVars, nodes, original_count, drainVars,
                 delVars, mutated, selected, summary>>

\* The retry pass leaving the main pass's failures in place.
AfterRetryKeepsAll(failed, again) == [x \in DOMAIN failed |-> failed[x].name]

\* Line 569: after the retry pass failed_nodes is the list of names that failed again.
AfterRetry(failed, again) == again

\* Lines 562-569: reroll_node has returned in the retry pass. A name that failed
\* again is appended to retry_failed, which replaces failed_nodes after the last item.
RetryPassStep ==
  /\ pc = "attempt_end"
  /\ pass = "retry"
  /\ attempts' = Append(attempts, Finished)
  /\ retry_failed' = IF att.ok # "ok" THEN Append(retry_failed, CurNode.name)
                     ELSE retry_failed
  /\ IF idx < Len(failed_nodes)
     THEN idx' = NextIndex(idx) /\ pc' = "cordon" /\ failed_nodes' = failed_nodes
     ELSE idx' = idx /\ pc' = "summary"
          /\ failed_nodes' = AfterRetry(failed_nodes, retry_failed')
  /\ att' = FreshAttempt
  /\ elapsed' = 0
  /\ UNCHANGED <<cfg, envVars, exit_code, healthVars, nodes, original_count, pass,
                 drainVars, delVars, mutated, selected, summary>>

\* An exit code that tolerates one failed node.
FinalCodeOffByOne(failed) == IF Len(failed) > 1 THEN 1 ELSE 0

\* Lines 578-583: run()'s return value after the summary.
FinalCode(failed) == IF failed # <<>> THEN 1 ELSE 0

\* Lines 571-583: the summary and run()'s return value.
Summarize ==
  /\ pc = "summary"
  /\ summary' = [total |-> Len(nodes),
                 successful |-> Len(nodes) - Len(failed_nodes),
                 failed |-> Len(failed_nodes),
                 names |-> failed_nodes]
  /\ Return(FinalCode(failed_nodes))
  /\ UNCHANGED <<cfg, envVars, healthVars, runVars, drainVars, elapsed, delVars, att,
                 mutated, attempts, selected>>

Next ==
  \/ CheckClusterHealth
  \/ SelectNodes
  \/ Plan
  \/ CordonNode
  \/ DrainList(RunPodLists)
  \/ DrainEvict
  \/ DrainStartWait
  \/ DrainPoll(RunPodLists)
  \/ DrainReturn
  \/ DeleteNode
  \/ ResolveInstance
  \/ TerminateInstance
  \/ DeleteReturn
  \/ WaitPoll
  \/ Provision
  \/ Pause
  \/ MainPassStep
  \/ RetryPassStep
  \/ Summarize

Spec == Init /\ [][Next]_vars

\* ------------------------------------------------- runs that are let run

\* Runs with the default settings, dry or not.
InitLive ==
  \E config \in {c \in Configs : Deviations(c) = 0}, listing \in Clusters :
    InitRun(config, listing)

\* Every remote call returns and every sleep ends: a run that can take a step
\* eventually takes one.
SpecLive == InitLive /\ [][Next]_vars /\ WF_vars(Next)

\* ------------------------------------------------- drain_node on its own

\* drain_node's settings: the defaults, with a drain timeout of zero or DrainPolls polls.
DrainConfigs ==
  {[c EXCEPT !.drain_timeout = t] :
     c \in {d \in Configs : ~d.dry_run /\ Deviations(d) = 0},
     t \in {0, DrainPolls * DrainSleep}}

DrainCluster == <<ManagedNode(1), ManagedNode(2)>>

\* reroll_node is about to call drain_node for the first of two selected nodes.
InitDrain ==
  \E config \in DrainConfigs, cordoned \in {"ok", "fail"} :
    /\ cfg = config
    /\ cluster = DrainCluster
    /\ pending = <<>>
    /\ pc = "drain"
    /\ exit_code = -1
    /\ health = "listed"
    /\ health_ready = ReadyCount(DrainCluster)
    /\ nodes = FilterKarpenter(DrainCluster, config.selector)
    /\ original_count = ReadyCount(nodes)
    /\ pass = "main"
    /\ idx = 1
    /\ failed_nodes = <<>>
    /\ retry_failed = <<>>
    /\ pods = <<>>
    /\ pods_to_evict = <<>>
    /\ k = 0
    /\ evicted = <<>>
    /\ remaining_pods = <<>>
    /\ rejected = FALSE
    /\ elapsed = 0
    /\ instance_id = None
    /\ outcome_code = "none"
    /\ att = [Called(FreshAttempt, "patch_node") EXCEPT
                !.cordon = cordoned, !.target = original_count]
    /\ attempts = <<>>
    /\ mutated = TRUE
    /\ selected = TRUE
    /\ summary = NoSummary

NextDrain ==
  \/ DrainList(DrainPodLists)
  \/ DrainEvict
  \/ DrainStartWait
  \/ DrainPoll(PollPodLists)
  \/ DrainReturn

SpecDrain == InitDrain /\ [][NextDrain]_vars

\* ------------------------------------- get_instance_id_from_node on its own

\* Provider ids: none, one that names an instance, one of another provider, and an
\* aws one whose last part is no instance id.
ProviderIds ==
  {None,
   AWS_SCHEME \o <<"/", "z", "/">> \o InstanceOf(1),
   <<"g", "c", "e", ":", "/", "/", "i", "-", "5">>,
   AWS_SCHEME \o <<"/", "z", "/", "x">>}

\* Values of an instance annotation: an instance id or some other text.
AnnotationValues == {InstanceOf(7), InstanceOf(8), <<"x">>}

\* Annotations: none, or either or both of the two instance annotations.
AnnotationSets ==
  {<<>>}
  \cup {(ANNOT_KARPENTER :> v) : v \in AnnotationValues}
  \cup {(ANNOT_K8S :> v) : v \in AnnotationValues}
  \cup {(ANNOT_KARPENTER :> v) @@ (ANNOT_K8S :> w) :
          v \in {InstanceOf(7), <<"x">>}, w \in {InstanceOf(8), <<"x">>}}

\* Addresses: none, an internal one, an external one before an internal one, two
\* internal ones.
AddressLists ==
  {<<>>,
   <<[type |-> "InternalIP", address |-> "10.0.0.1"]>>,
   <<[type |-> "ExternalIP", address |-> "3.0.0.1"],
     [type |-> "InternalIP", address |-> "10.0.0.1"]>>,
   <<[type |-> "InternalIP", address |-> "10.0.0.1"],
     [type |-> "InternalIP", address |-> "10.0.0.9"]>>}

\* The nodes the resolver is given: a managed node with any of these attributes.
ResolverNodes ==
  {[ManagedNode(1) EXCEPT !.provider_id = p, !.annotations = a, !.addresses = ad] :
     p \in ProviderIds, a \in AnnotationSets, ad \in AddressLists}

\* delete_node has deleted the first of two selected nodes and is about to resolve
\* its instance (line 414).
InitResolve ==
  \E node \in ResolverNodes, cordoned \in {"ok", "fail"} :
    /\ cfg = CHOOSE c \in Configs : ~c.dry_run /\ Deviations(c) = 0
    /\ cluster = <<ManagedNode(2)>>
    /\ pending = <<node>>
    /\ pc = "resolve"
    /\ exit_code = -1
    /\ health = "listed"
    /\ health_ready = 2
    /\ nodes = <<node, ManagedNode(2)>>
    /\ original_count = 2
    /\ pass = "main"
    /\ idx = 1
    /\ failed_nodes = <<>>
    /\ retry_failed = <<>>
    /\ pods = <<>>
    /\ pods_to_evict = <<>>
    /\ k = 0
    /\ evicted = <<>>
    /\ remaining_pods = <<>>
    /\ rejected = FALSE
    /\ elapsed = 0
    /\ instance_id = None
    /\ outcome_code = "none"
    /\ att = [FreshAttempt EXCEPT !.calls = {"patch_node", "list_pods", "delete_node"},
                                  !.cordon = cordoned, !.drain = "ok", !.delete = "ok",
                                  !.target = original_count]
    /\ attempts = <<>>
    /\ mutated = TRUE
    /\ selected = TRUE
    /\ summary = NoSummary

NextResolve ==
  \/ ResolveInstance
  \/ TerminateInstance
  \/ DeleteReturn

SpecResolve == InitResolve /\ [][NextResolve]_vars

\* ------------------------------------------------------------------ claims

Last(s) == s[Len(s)]

\* The run has ended: run() returned, or sys.exit ended the process.
Ended == pc \in {"returned", "exited"}

\* Finished attempts of a pass on a node, as positions in attempts.
AttemptsOf(name, which) ==
  {x \in DOMAIN attempts : attempts[x].node = name /\ attempts[x].pass = which}

FailedIn(name, which) == \E x \in AttemptsOf(name, which) : ~attempts[x].ok

\* What follows the control-plane delete inside delete_node and reroll_node.
PastDelete == {"resolve", "describe_instances", "terminate_instances", "wait_for_replacement"}

\* C1: outside a dry run, an attempt has issued the node delete call only if drain
\* returned success in that attempt; an attempt whose drain failed issues no delete,
\* resolution, termination or replacement wait, ends there, and run() records the
\* node as failed for the pass (failed_nodes in the main pass, retry_failed in the
\* retry pass).
C1_DeleteOnlyAfterDrain ==
  /\ [](~cfg.dry_run =>
          /\ ("delete_node" \in att.calls => att.drain = "ok")
          /\ (att.drain = "fail" =>
                /\ att.calls \cap ({"delete_node"} \cup PastDelete) = {}
                /\ pc \in {"drain_ret", "attempt_end", "exited"}))
  /\ [][(~cfg.dry_run /\ pc = "attempt_end" /\ att.drain = "fail") =>
          /\ ~Last(attempts').ok
          /\ Last(attempts').node = CurNode.name
          /\ IF pass = "main"
             THEN failed_nodes' = Append(failed_nodes, CurNode)
             ELSE retry_failed' = Append(retry_failed, CurNode.name)]_vars

C1_Witness ==
  /\ ~cfg.dry_run
  /\ pass = "retry"
  /\ "delete_node" \in att.calls
  /\ att.drain = "ok"
  /\ \E x \in DOMAIN attempts : ~attempts[x].ok

\* C2: an attempt has issued a terminate request only if its node delete call
\* succeeded; after a failed delete call the attempt resolves no instance and
\* terminates none.
C2_TerminateOnlyAfterDelete ==
  /\ ("terminate_instances" \in att.calls => att.delete = "ok")
  /\ (att.delete = "fail" =>
        att.calls \cap {"resolve", "describe_instances", "terminate_instances"} = {})

C2_Witness ==
  /\ "terminate_instances" \in att.calls
  /\ att.delete = "ok"
  /\ outcome_code = "ok"

\* The health gate returned false: its listing failed, or it counted fewer than 2
\* ready nodes.
GateRefused == health = "failed" \/ (health = "listed" /\ health_ready < 2)

GatePassed == health = "listed" /\ health_ready >= 2

\* C3: when the health gate returns false, run() has returned exit code 1, node
\* selection was never called and no mutating call was issued.
C3_RefusedGateStops ==
  GateRefused =>
    /\ pc = "returned"
    /\ exit_code = 1
    /\ ~selected
    /\ ~mutated
    /\ attempts = <<>>
    /\ att = FreshAttempt

C3_Witness == GateRefused /\ health = "listed" /\ health_ready = 1 /\ pc = "returned"

\* C4: in a dry run no mutating call is ever issued, and once the gate has passed
\* and the nodes are selected run() returns exit code 0.
C4_DryRunMutatesNothing ==
  cfg.dry_run =>
    /\ ~mutated
    /\ att.calls \cap MutatingCalls = {}
    /\ (pc = "returned" /\ GatePassed => exit_code = 0)

C4_Witness ==
  /\ cfg.dry_run
  /\ GatePassed
  /\ pc = "returned"
  /\ exit_code = 0
  /\ Len(nodes) = 2

\* C5 (as claimed): once the main pass is over, every node whose main-pass attempt
\* failed gets exactly one more attempt, in the order collected, and no other node
\* gets one. Stated of a run that has ended in the retry pass or after it: every
\* entry of failed_nodes has been given its retry.
C5_EveryFailedNodeRetried ==
  /\ (pc = "exited" /\ pass = "retry" => idx = Len(failed_nodes))
  /\ (pc = "returned" /\ pass # "none" =>
        /\ \A x \in DOMAIN nodes :
             Cardinality(AttemptsOf(nodes[x].name, "retry")) =
               IF FailedIn(nodes[x].name, "main") THEN 1 ELSE 0
        /\ \A x, y \in DOMAIN attempts :
             (x < y /\ attempts[x].pass = "retry" /\ attempts[y].pass = "retry") =>
               \E u, v \in DOMAIN attempts :
                 /\ u < v
                 /\ attempts[u].node = attempts[x].node
                 /\ attempts[u].pass = "main" /\ ~attempts[u].ok
                 /\ attempts[v].node = attempts[y].node
                 /\ attempts[v].pass = "main" /\ ~attempts[v].ok)

\* C6 (as claimed): a run that started its main pass gives every selected node one
\* main-pass attempt, in selection order, whatever happened to the nodes before it.
\* Stated of a run that has ended: the main-pass attempts, finished or under way,
\* cover the selected nodes.
C6_MainPassCoversEveryNode ==
  (Ended /\ pass = "main") => idx = Len(nodes)

\* The nodes whose last finished attempt failed.
StillFailed ==
  {name \in Names(nodes) :
     \/ FailedIn(name, "retry")
     \/ (FailedIn(name, "main") /\ AttemptsOf(name, "retry") = {})}

\* C7: when run() returns, its exit code is 0 or 1, and it is 0 exactly when the
\* health gate passed and no node matched, or the run is a dry run, or no node is
\* still failed after the retry pass; so a node that failed in the main pass and
\* succeeded on retry does not make it 1.
C7_ExitCode ==
  pc = "returned" =>
    /\ exit_code \in {0, 1}
    /\ (exit_code = 0) <=>
         (GatePassed /\ (nodes = <<>> \/ cfg.dry_run \/ StillFailed = {}))

C7_Witness ==
  /\ pc = "returned"
  /\ exit_code = 0
  /\ \E x \in DOMAIN attempts : ~attempts[x].ok

\* The nodes whose main-pass attempt and retry attempt both failed.
FailedTwice == {name \in Names(nodes) : FailedIn(name, "main") /\ FailedIn(name, "retry")}

\* C8: the summary's Total is the number of selected nodes, its Failed the number
\* of nodes whose main-pass and retry attempts both failed, its Successful the
\* difference, and the names it lists are exactly those nodes, each once.
C8_Summary ==
  summary # NoSummary =>
    /\ summary.total = Len(nodes)
    /\ summary.failed = Cardinality(FailedTwice)
    /\ summary.successful = summary.total - summary.failed
    /\ summary.successful + summary.failed = summary.total
    /\ Range(summary.names) = FailedTwice
    /\ Len(summary.names) = Cardinality(FailedTwice)

C8_Witness ==
  /\ summary = [total |-> 2, successful |-> 2, failed |-> 0, names |-> <<>>]
  /\ attempts[2].pass = "main"
  /\ ~attempts[2].ok
  /\ attempts[1].ok

\* C9 (as claimed): terminate_ec2_instance returns True when the provider answers
\* that the instance is not found.
C9_NotFoundIsSuccess ==
  outcome_code = "InvalidInstanceID.NotFound" => att.terminated = "ok"

\* A pod of one of the three classes drain never evicts.
Excluded(pod) ==
  \/ pod.deletion_timestamp
  \/ \E r \in DOMAIN pod.owner_references : pod.owner_references[r].kind = "DaemonSet"
  \/ MIRROR \in DOMAIN pod.annotations

Evictions(name) == Cardinality({x \in DOMAIN evicted : evicted[x] = name})

\* drain_node's eviction loop is over (or was never entered) and its first listing
\* is still at hand.
EvictionsDone == (pc = "evict" /\ k > Len(pods_to_evict)) \/ (pc = "drain_ret" /\ pods # <<>>)

\* C10: drain never requests an eviction for a listed pod that is terminating, a
\* DaemonSet's or a mirror pod, never more than one for any pod, and once its
\* eviction loop is over it has requested exactly one for every other listed pod,
\* and none for a pod that was not listed.
C10_OneEvictionPerEvictablePod ==
  /\ \A x \in DOMAIN pods :
       Evictions(pods[x].name) <= IF Excluded(pods[x]) THEN 0 ELSE 1
  /\ EvictionsDone =>
       /\ \A x \in DOMAIN pods :
            Evictions(pods[x].name) = IF Excluded(pods[x]) THEN 0 ELSE 1
       /\ Range(evicted) \subseteq Names(pods)

C10_Witness ==
  /\ pc = "evict"
  /\ k > Len(pods_to_evict)
  /\ Len(pods) = 2
  /\ evicted = <<"p2">>
  /\ pods[1].deletion_timestamp

\* A pod the polling loop's filter has kept is neither a DaemonSet's nor a mirror pod.
Awaited(pod) ==
  /\ \A r \in DOMAIN pod.owner_references : pod.owner_references[r].kind # "DaemonSet"
  /\ MIRROR \notin DOMAIN pod.annotations

C12_RejectedEvictionIsAbsorbed ==
  /\ \A x, y \in DOMAIN evicted : evicted[x] = evicted[y] => x = y
  /\ (pc = "evict" => att.drain = "none")
  /\ (pc = "drain_ret" /\ att.drain = "fail" /\ ~att.list_failed =>
        /\ evicted # <<>>
        /\ elapsed >= cfg.drain_timeout
        /\ (cfg.drain_timeout > 0 => remaining_pods # <<>>))

C12_Witness ==
  /\ rejected
  /\ Len(evicted) = 2
  /\ pc = "drain_ret"
  /\ att.drain = "ok"

\* The listing is still the one the run started with: nothing was removed or added.
ListingUntouched == ~mutated

\* A label value with a character that is not whitespace.
NonBlank(value) == \E x \in DOMAIN value : value[x] \notin {" ", "\t"}

\* A node select() is to return for the criteria.
Qualifies(node, criteria) ==
  /\ \E label \in {NODEPOOL, PROVISIONER} :
       label \in DOMAIN node.labels /\ NonBlank(node.labels[label])
  /\ \A key \in DOMAIN criteria :
       key \in DOMAIN node.labels /\ node.labels[key] = criteria[key]

\* C13: the nodes get_karpenter_nodes returned are exactly the listed nodes with a
\* non-blank provisioner marker under one of the two label names whose labels carry
\* the required value for every selector key, in listing order: the n-th selected
\* node is the n-th qualifying node of the listing.
C13_SelectionIsTheQualifyingNodesInOrder ==
  (selected /\ pc # "exited" /\ ListingUntouched) =>
    LET Q == {x \in DOMAIN cluster : Qualifies(cluster[x], cfg.selector)}
        Nth(n) == CHOOSE x \in Q : Cardinality({z \in Q : z <= x}) = n
    IN  /\ Len(nodes) = Cardinality(Q)
        /\ \A n \in DOMAIN nodes : nodes[n] = cluster[Nth(n)]

C13_Witness ==
  /\ selected
  /\ pc = "plan"
  /\ cluster = MixedCluster
  /\ Names(nodes) = {"n1", "n2"}
  /\ cfg.selector # <<>>

\* The health gate let the run through.
GateLetThrough == selected \/ pc = "select"

\* C14: check_cluster_health returns False when its node listing fails and when the
\* nodes with a Ready condition of status True number 0 or 1, and True when they
\* number 2 or more.
C14_HealthVerdict ==
  (health # "none" /\ ListingUntouched) =>
    LET ready == Cardinality({x \in DOMAIN cluster :
                   \E c \in DOMAIN cluster[x].conditions :
                     cluster[x].conditions[c] = [type |-> "Ready", status |-> "True"]})
    IN  /\ health = "failed" => ~GateLetThrough
        /\ health = "listed" =>
             /\ health_ready = ready
             /\ ready \in {0, 1} => ~GateLetThrough
             /\ ready >= 2 => GateLetThrough

C14_Witness ==
  /\ health = "listed"
  /\ health_ready = 2
  /\ Len(cluster) = 3
  /\ pc = "select"

\* get_instance_id_from_node has returned for the node of the attempt.
Resolved == "resolve" \in att.calls /\ pc \in {"terminate", "delete_ret"}

InAttempt ==
  pc \in {"cordon", "drain", "evict", "poll", "drain_ret", "delete", "resolve",
          "terminate", "delete_ret", "wait", "pause", "attempt_end"}

\* C16: reroll_node returns False exactly when its drain step or its delete step
\* failed. A failed cordon is followed by the drain all the same, and a failed
\* cordon, an unresolved instance, a failed termination and a replacement wait that
\* timed out leave the attempt successful: run() records it as such, collects no
\* failure for it and goes on to the next node.
C16_OnlyDrainAndDeleteFail ==
  /\ [](/\ pc = "attempt_end" =>
             /\ att.ok \in {"ok", "fail"}
             /\ att.ok = "fail" <=> (att.drain = "fail" \/ att.delete = "fail")
        /\ (~cfg.dry_run /\ att.cordon = "fail" /\ pc # "drain") => "list_pods" \in att.calls)
  /\ [][(pc = "attempt_end" /\ att.drain # "fail" /\ att.delete # "fail") =>
          /\ Last(attempts').ok
          /\ IF pass = "main" THEN failed_nodes' = failed_nodes
             ELSE retry_failed' = retry_failed
          /\ (pass = "main" /\ idx < Len(nodes)) =>
               (pc' = "cordon" /\ CurNode' = nodes[idx + 1])]_vars

C16_Witness ==
  /\ pc = "attempt_end"
  /\ att.ok = "ok"
  /\ att.cordon = "fail"
  /\ att.terminated = "fail"
  /\ att.wait = "fail"
  /\ pass = "main"
  /\ idx < Len(nodes)

\* C17 (as claimed): once run() has selected its nodes outside a dry run, no failure
\* of a later remote call ends the process.
C17_NoLaterFailureEndsTheProcess ==
  (selected /\ nodes # <<>> /\ ~cfg.dry_run) => pc # "exited"

\* The attempts begun so far: the loop counter of the pass, after the whole main
\* pass in the retry pass.
Begun == IF pass = "main" THEN idx ELSE Len(nodes) + idx

\* C18: whatever max_concurrent is, while reroll_node runs for a node every attempt
\* begun before it has returned, and in the main pass the attempts that have
\* returned are those of the nodes before it, in selection order; so a cordon is
\* only issued with no other attempt under way.
C18_OneAttemptAtATime ==
  InAttempt =>
    /\ Len(attempts) = Begun - 1
    /\ pass = "main" => \A x \in 1..(idx - 1) : attempts[x].node = nodes[x].name
    /\ pc = "cordon" => att = FreshAttempt

C18_Witness ==
  /\ cfg.max_concurrent = 2
  /\ pass = "main"
  /\ idx = 2
  /\ pc = "drain"
  /\ Len(attempts) = 1

\* The selected nodes that were ready when they were selected.
OriginalReady ==
  Cardinality({x \in DOMAIN nodes :
     \E c \in DOMAIN nodes[x].conditions :
       nodes[x].conditions[c] = [type |-> "Ready", status |-> "True"]})

\* C19: the target reroll_node is given is, in the main pass, the number of selected
\* nodes that were ready at selection less the number of attempts made before it,
\* failed ones included, and in the retry pass that number undiminished.
C19_ReplacementTarget ==
  (InAttempt /\ pc # "cordon") =>
    /\ original_count = OriginalReady
    /\ att.target = IF pass = "main" THEN OriginalReady - Len(attempts) ELSE OriginalReady

C19_Witness ==
  /\ pc = "wait"
  /\ pass = "main"
  /\ Len(attempts) = 1
  /\ ~attempts[1].ok
  /\ OriginalReady = 2
  /\ att.target = 1

\* C20 (as claimed): in a run that passed the health gate the cluster always keeps
\* at least two ready nodes.
C20_TwoReadyNodesRemain ==
  GatePassed =>
    Cardinality({x \in DOMAIN cluster :
       \E c \in DOMAIN cluster[x].conditions :
         cluster[x].conditions[c] = [type |-> "Ready", status |-> "True"]}) >= 2

\* C21 (as claimed): a "not found" answer to a mutating call does not make the run
\* end with exit code 1: when run() returns 1 after the gate passed, some node's
\* retry failed for another reason than a "not found" answer to its delete call.
C21_NotFoundIsNotFatal ==
  (pc = "returned" /\ exit_code = 1 /\ GatePassed) =>
    \E x \in DOMAIN attempts :
      attempts[x].pass = "retry" /\ ~attempts[x].ok /\ ~attempts[x].gone

\* The attempt under way is the last item of the retry pass.
LastRetryItem == pass = "retry" /\ Len(attempts) + 1 = Len(nodes) + Len(failed_nodes)

\* C22: a successful attempt is followed by the pause exactly when the configured
\* duration is positive and the attempt is not the last item of the retry pass; so
\* every successful main-pass attempt, the last node's included, is.
C22_PauseSkippedOnlyOnLastRetry ==
  (pc = "attempt_end" /\ att.ok = "ok") =>
    att.paused = (cfg.wait_between_nodes > 0 /\ ~LastRetryItem)

C22_Witness ==
  /\ pc = "attempt_end"
  /\ att.ok = "ok"
  /\ pass = "main"
  /\ idx = Len(nodes)
  /\ Len(nodes) = 2
  /\ att.paused

\* The node's InternalIP addresses for which the provider knows an instance.
KnownInternal ==
  {CurNode.addresses[x].address : x \in {y \in DOMAIN CurNode.addresses :
     /\ CurNode.addresses[y].type = "InternalIP"
     /\ ~att.lookup[CurNode.addresses[y].address].raised
     /\ att.lookup[CurNode.addresses[y].address].ids # <<>>}}

\* C23 (as claimed): when the provider id and the annotations yield nothing and the
\* provider knows an instance for some InternalIP address of the node,
\* get_instance_id_from_node returns the identifier of such an instance.
C23_AnyInternalAddressResolves ==
  (Resolved /\ att.lookup # <<>> /\ KnownInternal # {}) =>
    \E a \in KnownInternal : instance_id \in Range(att.lookup[a].ids)

\* C24: a run that is let run ends, by returning or by sys.exit, with exit code 0 or
\* 1; it makes at most two attempts on a node and so at most 2 * N on N selected
\* nodes, N of them in the main pass; and the clock of a polling loop never passes
\* its timeout by a whole sleep.
C24_RunsEnd ==
  /\ <>(Ended /\ exit_code \in {0, 1})
  /\ [](/\ Len(attempts) <= 2 * Len(nodes)
        /\ \A x \in DOMAIN nodes :
             /\ Cardinality(AttemptsOf(nodes[x].name, "main")) <= 1
             /\ Cardinality(AttemptsOf(nodes[x].name, "retry")) <= 1
        /\ pc = "poll" => elapsed < cfg.drain_timeout + DrainSleep
        /\ pc = "wait" => elapsed < max_wait + WaitSleep)

C24_Witness ==
  /\ pc = "returned"
  /\ Len(nodes) = 2
  /\ Len(attempts) = 4
  /\ exit_code = 1

====
